---------------------------- MODULE Spec2Model ----------------------------
(* A model of package chain (lvanoort/markov): the concurrent construction *)
(* of a first-order Markov chain from token sources (BuildChainFromSources, *)
(* BuildSingleLinkChain, buildChain, mergeChains) and the queries on the    *)
(* finished chain (CalculateNextToken, RetrieveMarkovLink, GetNextToken).   *)
EXTENDS Integers, Sequences, FiniteSets, TLC

(***************************************************************************)
(* Bounds of the model.                                                    *)
(***************************************************************************)
\* the largest number of token sources handed to BuildChainFromSources
MaxStreams == 2
\* the largest number of tokens the sources of one call return altogether
MaxTokens == 2
\* the largest number of non-EOF errors the sources of one call return
MaxErrs == 2

\* the longest token sequence of a partial chain handed to mergeChains alone
MaxSeqLen == 2
\* the largest occurrence count of a link handed to GetNextToken alone
MaxCount == 3
\* the longest token sequence of the source under a filteredSource
MaxUp == 3
\* the largest number of filters stacked by ApplyFiltersToSource
MaxFilters == 2
\* the most by which the Total of a miscomputed link exceeds its counts
MaxExcess == 2
\* the length of a stream longer than the buffer of its token channel
MaxLong == 22

\* the capacity of a token channel: make(chan string, 20)
TokChanCap == 20

\* the tokens a source can return; "" is an ordinary string a source may
\* return (an empty line of a scanner), and also the sentinel of buildChain
Tokens == {"", "a", "b"}
\* the non-EOF error source i returns when it fails: an error value of its own
SourceError(i) == <<"error", i>>
\* io.EOF and the nil error
EOF == <<"EOF">>
NoErr == <<"nil">>

(***************************************************************************)
(* Go maps as functions; a missing int entry reads as the zero value.      *)
(***************************************************************************)
EmptyMap == [x \in {} |-> 0]

MapGet(m, k) == IF k \in DOMAIN m THEN m[k] ELSE 0

MapPut(m, k, v) == [x \in (DOMAIN m) \cup {k} |-> IF x = k THEN v ELSE m[x]]

\* &singleTokenLink{Token: [1]string{key}, NextTokenOccurrences: make(map[string]int)}
NewLink(key) == [Token |-> key, NextTokenOccurrences |-> EmptyMap, Total |-> 0]

\* &singleKeyChain{Links: links}
MakeChain(links) == [Links |-> links]

(***************************************************************************)
(* buildChain: the closure appendToChain and the statement after the loop. *)
(***************************************************************************)
\* appendToChain without link.Total++
appendToChain_NoTotal(links, prev, next) ==
    LET link == IF prev \notin DOMAIN links THEN NewLink(prev) ELSE links[prev]
        bumped == [link EXCEPT
                     !.NextTokenOccurrences =
                         MapPut(@, next, MapGet(@, next) + 1)]
    IN  MapPut(links, prev, bumped)

\* appendToChain storing the link under next: links[next] = link
appendToChain_KeyNext(links, prev, next) ==
    LET link == IF prev \notin DOMAIN links THEN NewLink(prev) ELSE links[prev]
        bumped == [link EXCEPT
                     !.NextTokenOccurrences =
                         MapPut(@, next, MapGet(@, next) + 1),
                     !.Total = @ + 1]
    IN  MapPut(links, next, bumped)

appendToChain(links, prev, next) ==
    LET link == IF prev \notin DOMAIN links THEN NewLink(prev) ELSE links[prev]
        bumped == [link EXCEPT
                     !.NextTokenOccurrences =
                         MapPut(@, next, MapGet(@, next) + 1),
                     !.Total = @ + 1]
    IN  MapPut(links, prev, bumped)

\* buildChain without the appendToChain(lastVal, "") after the loop
buildChainReturn_NoFinal(links, last) == MakeChain(links)

\* the end of buildChain, once the range over the channel has ended
buildChainReturn(links, last) == MakeChain(appendToChain(links, last, ""))

\* buildChain on a channel that delivers the tokens of s and is then closed
RECURSIVE buildChainLoop(_, _, _, _)
buildChainLoop(links, last, s, i) ==
    IF i > Len(s) THEN buildChainReturn(links, last)
    ELSE buildChainLoop(appendToChain(links, last, s[i]), s[i], s, i + 1)

buildChain(s) == buildChainLoop(EmptyMap, "", s, 1)

(***************************************************************************)
(* mergeChains.  The range over chain.Links visits the links in an order   *)
(* Go leaves unspecified; every visit only adds to the destination link of *)
(* link.Token[0], so the fold below takes the links of a chain one by one. *)
(***************************************************************************)
\* mergeLink assigning where the code adds (= for +=)
mergeLink_Overwrite(mergedLinks, link) ==
    LET key == link.Token
        mergedLink == IF key \notin DOMAIN mergedLinks
                      THEN NewLink(key) ELSE mergedLinks[key]
        occ == [k \in (DOMAIN mergedLink.NextTokenOccurrences)
                        \cup (DOMAIN link.NextTokenOccurrences) |->
                  IF k \in DOMAIN link.NextTokenOccurrences
                  THEN link.NextTokenOccurrences[k]
                  ELSE mergedLink.NextTokenOccurrences[k]]
    IN  MapPut(mergedLinks, key,
               [Token |-> key,
                NextTokenOccurrences |-> occ,
                Total |-> link.Total])

\* mergeLink without mergedLink.Total += link.Total
mergeLink_NoTotal(mergedLinks, link) ==
    LET key == link.Token
        mergedLink == IF key \notin DOMAIN mergedLinks
                      THEN NewLink(key) ELSE mergedLinks[key]
        occ == [k \in (DOMAIN mergedLink.NextTokenOccurrences)
                        \cup (DOMAIN link.NextTokenOccurrences) |->
                  MapGet(mergedLink.NextTokenOccurrences, k)
                      + MapGet(link.NextTokenOccurrences, k)]
    IN  MapPut(mergedLinks, key,
               [Token |-> key,
                NextTokenOccurrences |-> occ,
                Total |-> mergedLink.Total])

mergeLink(mergedLinks, link) ==
    LET key == link.Token
        mergedLink == IF key \notin DOMAIN mergedLinks
                      THEN NewLink(key) ELSE mergedLinks[key]
        occ == [k \in (DOMAIN mergedLink.NextTokenOccurrences)
                        \cup (DOMAIN link.NextTokenOccurrences) |->
                  MapGet(mergedLink.NextTokenOccurrences, k)
                      + MapGet(link.NextTokenOccurrences, k)]
    IN  MapPut(mergedLinks, key,
               [Token |-> key,
                NextTokenOccurrences |-> occ,
                Total |-> mergedLink.Total + link.Total])

RECURSIVE mergeLinksOf(_, _, _)
mergeLinksOf(mergedLinks, chain, keys) ==
    IF keys = {} THEN mergedLinks
    ELSE LET k == CHOOSE x \in keys : TRUE
         IN  mergeLinksOf(mergeLink(mergedLinks, chain.Links[k]), chain,
                          keys \ {k})

\* mergeChains leaving out the last chain (a loop bound off by one)
RECURSIVE mergeFrom_SkipLast(_, _, _)
mergeFrom_SkipLast(mergedLinks, chains, i) ==
    IF i >= Len(chains) THEN mergedLinks
    ELSE mergeFrom_SkipLast(
             mergeLinksOf(mergedLinks, chains[i], DOMAIN chains[i].Links),
             chains, i + 1)

RECURSIVE mergeFrom(_, _, _)
mergeFrom(mergedLinks, chains, i) ==
    IF i > Len(chains) THEN mergedLinks
    ELSE mergeFrom(mergeLinksOf(mergedLinks, chains[i], DOMAIN chains[i].Links),
                   chains, i + 1)

mergeChains(chains) == MakeChain(mergeFrom(EmptyMap, chains, 1))

(***************************************************************************)
(* Queries.                                                                *)
(***************************************************************************)
\* GetNextToken with goalSum the value of rand.Intn(l.Total) and order the
\* order in which the range visits the keys of l.NextTokenOccurrences
\* the loop of GetNextToken testing sum == goalSum
RECURSIVE walkOccurrences_Equal(_, _, _, _, _)
walkOccurrences_Equal(l, order, i, sum, goalSum) ==
    IF i > Len(order) THEN ""
    ELSE LET s == sum + l.NextTokenOccurrences[order[i]]
         IN  IF s = goalSum THEN order[i]
             ELSE walkOccurrences_Equal(l, order, i + 1, s, goalSum)

RECURSIVE walkOccurrences(_, _, _, _, _)
walkOccurrences(l, order, i, sum, goalSum) ==
    IF i > Len(order) THEN ""
    ELSE LET s == sum + l.NextTokenOccurrences[order[i]]
         IN  IF s >= goalSum THEN order[i]
             ELSE walkOccurrences(l, order, i + 1, s, goalSum)

GetNextToken(l, order, goalSum) == walkOccurrences(l, order, 1, 0, goalSum)

\* RetrieveMarkovLink reporting every key as present
RetrieveMarkovLink_AlwaysPresent(c, token) ==
    <<(IF token \in DOMAIN c.Links THEN <<c.Links[token]>> ELSE <<>>), TRUE>>

\* (link, keyPresent), the link as a sequence of length 0 (nil) or 1
RetrieveMarkovLink(c, token) ==
    IF token \in DOMAIN c.Links THEN <<(<<c.Links[token]>>), TRUE>>
    ELSE <<(<<>>), FALSE>>

\* (nextToken, keyPresent)
CalculateNextToken(c, token, order, goalSum) ==
    IF token \notin DOMAIN c.Links THEN <<"", FALSE>>
    ELSE <<GetNextToken(c.Links[token], order, goalSum), TRUE>>

\* the orders in which a range can visit the keys of a map
Orders(m) ==
    {o \in [1..Cardinality(DOMAIN m) -> DOMAIN m] :
        \A i, j \in DOMAIN o : i # j => o[i] # o[j]}

\* the keys appended in the order the range visits them
RetrieveNextTokenPossibilities(l, order) == order

\* float64(num) / float64(den), kept as the two integers
Quotient(num, den) == [num |-> num, den |-> den]

\* the literal 0.0
Zero == Quotient(0, 1)

\* GetProbabilityOfToken dividing without the ok test: a missing key reads 0
GetProbabilityOfToken_NoPresenceCheck(l, nextToken) ==
    <<Quotient(MapGet(l.NextTokenOccurrences, nextToken), l.Total), TRUE>>

\* (probability, present)
GetProbabilityOfToken(l, nextToken) ==
    IF nextToken \notin DOMAIN l.NextTokenOccurrences THEN <<Zero, FALSE>>
    ELSE <<Quotient(l.NextTokenOccurrences[nextToken], l.Total), TRUE>>

(***************************************************************************)
(* filteredSource.  A SourceFilter is taken as a function from candidate   *)
(* tokens to the result of FilterToken; the wrapped source is a plain      *)
(* source that returns the tokens of up.toks and then up.end, or another   *)
(* filteredSource (ApplyFiltersToSource): layers[1] wraps the plain source *)
(* and layers[k + 1] wraps layers[k].                                      *)
(***************************************************************************)
\* the tokens a filter sees and returns
FTokens == {"a", "b"}
\* the error of a failing SourceFilter
FilterError == <<"filter error">>
\* what FilterToken returns: a slice of tokens and nil, or an error
FilterResults ==
    {[tokens |-> q, err |-> NoErr] : q \in {<<>>, <<"a">>, <<"b", "a">>}}
    \cup {[tokens |-> <<>>, err |-> FilterError]}

FilterPool == [FTokens -> FilterResults]

\* s.filter.FilterToken(candidate)
FilterToken(filter, candidate) == filter[candidate]

\* &filteredSource{src: source, filter: v}
NewFilteredSource(filter) == [filter |-> filter, queue |-> <<>>, index |-> 0]

\* no filteredSource at all
NoFilteredSource ==
    [up |-> [toks |-> <<>>, end |-> EOF], pos |-> 0, layers |-> <<>>]

\* NextToken of the plain source at the bottom
plainNextToken(fs) ==
    IF fs.pos < Len(fs.up.toks)
    THEN [fs |-> [fs EXCEPT !.pos = @ + 1], token |-> fs.up.toks[fs.pos + 1],
          err |-> NoErr]
    ELSE [fs |-> fs, token |-> "", err |-> fs.up.end]

\* s.queue = tokens; s.index = 1, with index 0 (the first token twice)
startQueue_IndexZero(layer, tokens) ==
    [layer EXCEPT !.queue = tokens, !.index = 0]

\* s.queue = tokens; s.index = 1
startQueue(layer, tokens) == [layer EXCEPT !.queue = tokens, !.index = 1]

\* tokenErr != nil, never taken
filterFailed_Ignored(f) == FALSE

\* tokenErr != nil
filterFailed(f) == f.err # NoErr

RECURSIVE layerNextToken(_, _)
RECURSIVE readLoop(_, _)

\* (s *filteredSource) NextToken() of layers[k]; k = 0 is the plain source
layerNextToken(fs, k) ==
    IF k = 0 THEN plainNextToken(fs)
    ELSE LET s == fs.layers[k]
             queueLen == Len(s.queue)
         IN  IF s.index < queueLen
             THEN [fs |-> [fs EXCEPT !.layers[k].index = @ + 1],
                   token |-> s.queue[s.index + 1], err |-> NoErr]
             ELSE IF queueLen # 0
             THEN readLoop([fs EXCEPT !.layers[k].queue = <<>>,
                                      !.layers[k].index = 0], k)
             ELSE readLoop(fs, k)

\* the for loop of NextToken
readLoop(fs, k) ==
    LET r == layerNextToken(fs, k - 1)
    IN  IF r.err # NoErr THEN [fs |-> r.fs, token |-> "", err |-> r.err]
        ELSE LET f == FilterToken(r.fs.layers[k].filter, r.token)
                 count == Len(f.tokens)
             IN  IF filterFailed(f)
                 THEN [fs |-> r.fs, token |-> "", err |-> f.err]
                 ELSE IF count = 1
                 THEN [fs |-> r.fs, token |-> f.tokens[1], err |-> NoErr]
                 ELSE IF count > 1
                 THEN [fs |-> [r.fs EXCEPT
                                  !.layers[k] = startQueue(@, f.tokens)],
                       token |-> f.tokens[1], err |-> NoErr]
                 ELSE readLoop(r.fs, k)

(***************************************************************************)
(* State of one call of BuildChainFromSources.                             *)
(***************************************************************************)
VARIABLES
    n,            \* len(tokenSources)
    returned,     \* returned[i]: the tokens source i has returned so far
    raised,       \* raised[i]: the non-EOF errors source i has returned so far
    prodPc,       \* the producer goroutine of source i
    prodVal,      \* the token or error the producer is about to send
    tokChan,      \* the buffer of tokChan i
    tokClosed,    \* whether tokChan i is closed
    accPc,        \* the goroutine of BuildSingleLinkChain for channel i
    links,        \* the links map of buildChain(channel i)
    lastVal,      \* lastVal of buildChain(channel i)
    chainTex,     \* the holder of the mutex chainTex, 0 when free
    chainSlice,   \* chainSlice of BuildSingleLinkChain
    wg,           \* the counter of the WaitGroup
    bslcPc,       \* the goroutine running BuildSingleLinkChain
    bslcVal,      \* the chain it sends on chainChannel
    chainClosed,  \* whether chainChan is closed
    mainPc,       \* the caller inside BuildChainFromSources
    retChain,     \* the returned MarkovChain: <<>> is nil, <<c>> a chain
    retErr,       \* the returned error
    args,         \* the arguments of the last call of a query or function
    ret,          \* its results
    limits,       \* what the sources of the call will return at most
    fsrc,         \* a filteredSource and the source it wraps
    delivered     \* the tokens its NextToken has returned so far

vars == <<n, returned, raised, prodPc, prodVal, tokChan, tokClosed, accPc,
          links, lastVal, chainTex, chainSlice, wg, bslcPc, bslcVal,
          chainClosed, mainPc, retChain, retErr, args, ret, limits, fsrc,
          delivered>>

sourceVars == <<returned, raised>>
prodVars == <<prodPc, prodVal>>
chanVars == <<tokChan, tokClosed>>
accVars == <<accPc, links, lastVal>>
bslcVars == <<chainTex, chainSlice, wg, bslcPc, bslcVal, chainClosed>>
mainVars == <<mainPc, retChain, retErr>>
callVars == <<args, ret>>
filterVars == <<fsrc, delivered>>

Streams == 1..n

NoCall == [op |-> "none"]

\* the sources of the call are plain sources, none a filteredSource
NoFilter == fsrc = NoFilteredSource /\ delivered = <<>>

\* BuildChainFromSources has started every goroutine and stands at its select
Init ==
    /\ n \in 0..MaxStreams
    /\ returned = [i \in Streams |-> <<>>]
    /\ raised = [i \in Streams |-> <<>>]
    /\ prodPc = [i \in Streams |-> "next"]
    /\ prodVal = [i \in Streams |-> ""]
    /\ tokChan = [i \in Streams |-> <<>>]
    /\ tokClosed = [i \in Streams |-> FALSE]
    /\ accPc = [i \in Streams |-> "range"]
    /\ links = [i \in Streams |-> EmptyMap]
    /\ lastVal = [i \in Streams |-> ""]
    /\ chainTex = 0
    /\ chainSlice = <<>>
    /\ wg = n
    /\ bslcPc = "wait"
    /\ bslcVal = MakeChain(EmptyMap)
    /\ chainClosed = FALSE
    /\ mainPc = "select"
    /\ retChain = <<>>
    /\ retErr = NoErr
    /\ args = NoCall
    /\ ret = NoCall
    /\ limits = [tokens |-> MaxTokens, errs |-> MaxErrs, alphabet |-> Tokens]
    /\ NoFilter

(***************************************************************************)
(* A token source: NextToken returns a token, io.EOF or another error.     *)
(***************************************************************************)
\* the bounds on what the sources return count the tokens and the errors of
\* all the sources together
RECURSIVE SumLen(_, _)
SumLen(f, k) == IF k = 0 THEN 0 ELSE Len(f[k]) + SumLen(f, k - 1)

TotalLen(f) == SumLen(f, n)

NextTokenResults(i) ==
    {[token |-> t, err |-> NoErr] : t \in IF TotalLen(returned) < limits.tokens
                                          THEN limits.alphabet ELSE {}}
    \cup {[token |-> "", err |-> e] : e \in IF TotalLen(raised) < limits.errs
                                            THEN {SourceError(i)} ELSE {}}
    \cup {[token |-> "", err |-> EOF]}

\* localVal.NextToken(): of a plain source, or of the filteredSource when the
\* first source handed to BuildChainFromSources is one; fs is the state it
\* leaves
SourceResults(i) ==
    IF i # 1 \/ fsrc.layers = <<>>
    THEN {[token |-> r.token, err |-> r.err, fs |-> fsrc] :
              r \in NextTokenResults(i)}
    ELSE {layerNextToken(fsrc, Len(fsrc.layers))}

(***************************************************************************)
(* The producer goroutine of BuildChainFromSources for source i.           *)
(***************************************************************************)
\* token, tokenErr := localVal.NextToken(), and the branch on tokenErr;
\* on io.EOF: close(tokChan); return
ProducerNext(i) ==
    /\ prodPc[i] = "next"
    /\ \E r \in SourceResults(i) :
       /\ fsrc' = r.fs
       /\ delivered' = IF i = 1 /\ fsrc.layers # <<>> /\ r.err = NoErr
                       THEN Append(delivered, r.token) ELSE delivered
       /\ IF r.err = EOF
         THEN /\ tokClosed' = [tokClosed EXCEPT ![i] = TRUE]
              /\ prodPc' = [prodPc EXCEPT ![i] = "done"]
              /\ UNCHANGED <<prodVal, sourceVars>>
         ELSE IF r.err # NoErr
         THEN /\ raised' = [raised EXCEPT ![i] = Append(@, r.err)]
              /\ prodPc' = [prodPc EXCEPT ![i] = "sendErr"]
              /\ prodVal' = [prodVal EXCEPT ![i] = r.err]
              /\ UNCHANGED <<returned, tokClosed>>
         ELSE /\ returned' = [returned EXCEPT ![i] = Append(@, r.token)]
              /\ prodPc' = [prodPc EXCEPT ![i] = "sendTok"]
              /\ prodVal' = [prodVal EXCEPT ![i] = r.token]
              /\ UNCHANGED <<raised, tokClosed>>
    /\ UNCHANGED <<n, limits, tokChan, accVars, bslcVars, mainVars, callVars>>

\* tokChan <- token
ProducerSendToken(i) ==
    /\ prodPc[i] = "sendTok"
    /\ Len(tokChan[i]) < TokChanCap
    /\ tokChan' = [tokChan EXCEPT ![i] = Append(@, prodVal[i])]
    /\ prodPc' = [prodPc EXCEPT ![i] = "next"]
    /\ prodVal' = [prodVal EXCEPT ![i] = ""]
    /\ UNCHANGED <<n, limits, filterVars, tokClosed, sourceVars, accVars, bslcVars, mainVars, callVars>>

\* the producer dropping the error instead of sending it on errorChan
ProducerSendError_Dropped(i) ==
    /\ prodPc[i] = "sendErr"
    /\ prodPc' = [prodPc EXCEPT ![i] = "next"]
    /\ prodVal' = [prodVal EXCEPT ![i] = ""]
    /\ UNCHANGED <<n, limits, filterVars, sourceVars, chanVars, accVars, bslcVars, mainVars, callVars>>

\* errorChan <- tokenErr meets case e := <-errorChan of the select: errorChan
\* is unbuffered, so the send completes when the caller takes the error and
\* returns nil, e; the producer then goes round its for loop again
ProducerSendError(i) ==
    /\ prodPc[i] = "sendErr"
    /\ mainPc = "select"
    /\ mainPc' = "returned"
    /\ retChain' = <<>>
    /\ retErr' = prodVal[i]
    /\ prodPc' = [prodPc EXCEPT ![i] = "next"]
    /\ prodVal' = [prodVal EXCEPT ![i] = ""]
    /\ UNCHANGED <<n, limits, filterVars, sourceVars, chanVars, accVars, bslcVars, callVars>>

(***************************************************************************)
(* The goroutine BuildSingleLinkChain starts for token channel i.          *)
(***************************************************************************)
\* one round of for val := range tokenChannel
AccReceive(i) ==
    /\ accPc[i] = "range"
    /\ tokChan[i] # <<>>
    /\ LET val == Head(tokChan[i])
       IN  /\ links' = [links EXCEPT ![i] = appendToChain(@, lastVal[i], val)]
           /\ lastVal' = [lastVal EXCEPT ![i] = val]
    /\ tokChan' = [tokChan EXCEPT ![i] = Tail(@)]
    /\ UNCHANGED <<n, limits, filterVars, accPc, tokClosed, sourceVars, prodVars, bslcVars, mainVars,
                   callVars>>

\* the range ends on the closed and drained channel; buildChain returns
AccBuilt(i) ==
    /\ accPc[i] = "range"
    /\ tokChan[i] = <<>>
    /\ tokClosed[i]
    /\ links' = [links EXCEPT ![i] = buildChainReturn(@, lastVal[i]).Links]
    /\ accPc' = [accPc EXCEPT ![i] = "lock"]
    /\ UNCHANGED <<n, limits, filterVars, lastVal, chanVars, sourceVars, prodVars, bslcVars, mainVars,
                   callVars>>

\* the accumulator going on to the append without waiting for the mutex
AccLock_NoWait(i) ==
    /\ accPc[i] = "lock"
    /\ chainTex' = i
    /\ accPc' = [accPc EXCEPT ![i] = "append"]
    /\ UNCHANGED <<n, limits, filterVars, links, lastVal, chainSlice, wg,
                   bslcPc, bslcVal, chainClosed, chanVars, sourceVars,
                   prodVars, mainVars, callVars>>

\* chainTex.Lock()
AccLock(i) ==
    /\ accPc[i] = "lock"
    /\ chainTex = 0
    /\ chainTex' = i
    /\ accPc' = [accPc EXCEPT ![i] = "append"]
    /\ UNCHANGED <<n, limits, filterVars, links, lastVal, chainSlice, wg, bslcPc, bslcVal, chainClosed,
                   chanVars, sourceVars, prodVars, mainVars, callVars>>

\* chainSlice = append(chainSlice, resultingChain); chainTex.Unlock()
AccAppend(i) ==
    /\ accPc[i] = "append"
    /\ chainSlice' = Append(chainSlice, MakeChain(links[i]))
    /\ chainTex' = 0
    /\ accPc' = [accPc EXCEPT ![i] = "wgDone"]
    /\ UNCHANGED <<n, limits, filterVars, links, lastVal, wg, bslcPc, bslcVal, chainClosed,
                   chanVars, sourceVars, prodVars, mainVars, callVars>>

\* the accumulator ending without wg.Done()
AccDone_NoSignal(i) ==
    /\ accPc[i] = "wgDone"
    /\ accPc' = [accPc EXCEPT ![i] = "done"]
    /\ UNCHANGED <<n, limits, filterVars, links, lastVal, chainTex, chainSlice,
                   wg, bslcPc, bslcVal, chainClosed, chanVars, sourceVars,
                   prodVars, mainVars, callVars>>

\* wg.Done()
AccDone(i) ==
    /\ accPc[i] = "wgDone"
    /\ wg' = wg - 1
    /\ accPc' = [accPc EXCEPT ![i] = "done"]
    /\ UNCHANGED <<n, limits, filterVars, links, lastVal, chainTex, chainSlice, bslcPc, bslcVal,
                   chainClosed, chanVars, sourceVars, prodVars, mainVars,
                   callVars>>

(***************************************************************************)
(* BuildSingleLinkChain itself.                                            *)
(***************************************************************************)
\* BuildSingleLinkChain without wg.Wait()
BslcMerge_NoWait ==
    /\ bslcPc = "wait"
    /\ bslcVal' = mergeChains(chainSlice)
    /\ bslcPc' = "send"
    /\ UNCHANGED <<n, limits, filterVars, chainTex, chainSlice, wg, chainClosed, sourceVars, prodVars,
                   chanVars, accVars, mainVars, callVars>>

\* wg.Wait() returns; mergeChains(chainSlice...) is evaluated
BslcMerge ==
    /\ bslcPc = "wait"
    /\ wg = 0
    /\ bslcVal' = mergeChains(chainSlice)
    /\ bslcPc' = "send"
    /\ UNCHANGED <<n, limits, filterVars, chainTex, chainSlice, wg, chainClosed, sourceVars, prodVars,
                   chanVars, accVars, mainVars, callVars>>

\* chainChannel <- ... meets case chain := <-chainChan of the select:
\* chainChan is unbuffered; the caller returns chain, nil
BslcSend ==
    /\ bslcPc = "send"
    /\ mainPc = "select"
    /\ mainPc' = "returned"
    /\ retChain' = <<bslcVal>>
    /\ retErr' = NoErr
    /\ bslcPc' = "close"
    /\ UNCHANGED <<n, limits, filterVars, chainTex, chainSlice, wg, bslcVal, chainClosed, sourceVars,
                   prodVars, chanVars, accVars, callVars>>

\* close(chainChannel)
BslcClose ==
    /\ bslcPc = "close"
    /\ chainClosed' = TRUE
    /\ bslcPc' = "done"
    /\ UNCHANGED <<n, limits, filterVars, chainTex, chainSlice, wg, bslcVal, sourceVars, prodVars,
                   chanVars, accVars, mainVars, callVars>>

(***************************************************************************)
(* The caller queries the chain it was returned.                           *)
(***************************************************************************)
\* RetrieveMarkovLink adding a link for a key it does not find
CallRetrieveMarkovLink_Inserting ==
    /\ mainPc = "returned"
    /\ retChain # <<>>
    /\ \E token \in Tokens :
         /\ args' = [op |-> "RetrieveMarkovLink", token |-> token]
         /\ ret' = [op |-> "RetrieveMarkovLink",
                    keyPresent |-> RetrieveMarkovLink(retChain[1], token)[2],
                    link |-> RetrieveMarkovLink(retChain[1], token)[1]]
         /\ retChain' = IF token \in DOMAIN retChain[1].Links THEN retChain
                        ELSE <<MakeChain(MapPut(retChain[1].Links, token,
                                                NewLink(token)))>>
    /\ UNCHANGED <<n, limits, filterVars, sourceVars, prodVars, chanVars,
                   accVars, bslcVars, mainPc, retErr>>

CallRetrieveMarkovLink ==
    /\ mainPc = "returned"
    /\ retChain # <<>>
    /\ \E token \in Tokens :
         /\ args' = [op |-> "RetrieveMarkovLink", token |-> token]
         /\ ret' = [op |-> "RetrieveMarkovLink",
                    keyPresent |-> RetrieveMarkovLink(retChain[1], token)[2],
                    link |-> RetrieveMarkovLink(retChain[1], token)[1]]
    /\ UNCHANGED <<n, limits, filterVars, sourceVars, prodVars, chanVars, accVars, bslcVars, mainVars>>

CallCalculateNextToken ==
    /\ mainPc = "returned"
    /\ retChain # <<>>
    /\ \E token \in Tokens :
         LET c == retChain[1]
             occ == IF token \in DOMAIN c.Links
                    THEN c.Links[token].NextTokenOccurrences ELSE EmptyMap
             total == IF token \in DOMAIN c.Links
                      THEN c.Links[token].Total ELSE 1
         IN  \E order \in Orders(occ), goalSum \in 0..(total - 1) :
               /\ args' = [op |-> "CalculateNextToken", token |-> token]
               /\ ret' = [op |-> "CalculateNextToken",
                          keyPresent |->
                              CalculateNextToken(c, token, order, goalSum)[2],
                          nextToken |->
                              CalculateNextToken(c, token, order, goalSum)[1]]
    /\ UNCHANGED <<n, limits, filterVars, sourceVars, prodVars, chanVars, accVars, bslcVars, mainVars>>

\* link.GetProbabilityOfToken(nextToken) of a link of the returned chain
CallLinkGetProbabilityOfToken ==
    /\ mainPc = "returned"
    /\ retChain # <<>>
    /\ \E token \in DOMAIN retChain[1].Links, nextToken \in Tokens :
         LET p == GetProbabilityOfToken(retChain[1].Links[token], nextToken)
         IN  /\ args' = [op |-> "GetProbabilityOfToken", token |-> token,
                         nextToken |-> nextToken]
             /\ ret' = [op |-> "GetProbabilityOfToken",
                        probability |-> p[1], present |-> p[2]]
    /\ UNCHANGED <<n, limits, filterVars, sourceVars, prodVars, chanVars,
                   accVars, bslcVars, mainVars>>

\* link.RetrieveNextTokenPossibilities() of a link of the returned chain
CallLinkRetrieveNextTokenPossibilities ==
    /\ mainPc = "returned"
    /\ retChain # <<>>
    /\ \E token \in DOMAIN retChain[1].Links :
         LET l == retChain[1].Links[token]
         IN  \E order \in Orders(l.NextTokenOccurrences) :
               /\ args' = [op |-> "RetrieveNextTokenPossibilities",
                           token |-> token]
               /\ ret' = [op |-> "RetrieveNextTokenPossibilities",
                          tokens |-> RetrieveNextTokenPossibilities(l, order)]
    /\ UNCHANGED <<n, limits, filterVars, sourceVars, prodVars, chanVars,
                   accVars, bslcVars, mainVars>>

Next ==
    \/ \E i \in Streams : ProducerNext(i)
    \/ \E i \in Streams : ProducerSendToken(i)
    \/ \E i \in Streams : ProducerSendError(i)
    \/ \E i \in Streams : AccReceive(i)
    \/ \E i \in Streams : AccBuilt(i)
    \/ \E i \in Streams : AccLock(i)
    \/ \E i \in Streams : AccAppend(i)
    \/ \E i \in Streams : AccDone(i)
    \/ BslcMerge
    \/ BslcSend
    \/ BslcClose
    \/ CallRetrieveMarkovLink
    \/ CallCalculateNextToken
    \/ CallLinkGetProbabilityOfToken
    \/ CallLinkRetrieveNextTokenPossibilities

Spec == Init /\ [][Next]_vars


(***************************************************************************)
(* What the claims speak of, computed from the tokens and errors the       *)
(* sources returned.                                                       *)
(***************************************************************************)
Range(f) == {f[x] : x \in DOMAIN f}

\* "" ++ s ++ ""
Framed(s) == <<"">> \o s \o <<"">>

\* the number of positions of s at which p is immediately followed by nx
PairCount(s, p, nx) ==
    Cardinality({k \in 1..(Len(s) - 1) : s[k] = p /\ s[k + 1] = nx})

\* the number of positions of s at which p is followed by something
FollowedCount(s, p) == Cardinality({k \in 1..(Len(s) - 1) : s[k] = p})

RECURSIVE SumPairs(_, _, _)
SumPairs(k, p, nx) ==
    IF k = 0 THEN 0
    ELSE PairCount(Framed(returned[k]), p, nx) + SumPairs(k - 1, p, nx)

RECURSIVE SumOver(_, _)
SumOver(m, keys) ==
    IF keys = {} THEN 0
    ELSE LET k == CHOOSE x \in keys : TRUE
         IN  m[k] + SumOver(m, keys \ {k})

\* the sum of the values of a map
SumValues(m) == SumOver(m, DOMAIN m)

OccOf(ls, p, nx) ==
    IF p \in DOMAIN ls THEN MapGet(ls[p].NextTokenOccurrences, nx) ELSE 0

TotalOf(ls, p) == IF p \in DOMAIN ls THEN ls[p].Total ELSE 0

OnlyTokens(ls) ==
    /\ DOMAIN ls \subseteq Tokens
    /\ \A p \in DOMAIN ls : DOMAIN ls[p].NextTokenOccurrences \subseteq Tokens

\* the tokens that are the previous token of some transition of some stream
PrevTokens ==
    IF n = 0 THEN {} ELSE {""} \cup UNION {Range(returned[i]) : i \in Streams}

AllRaised == UNION {Range(raised[i]) : i \in Streams}

Returned == mainPc = "returned"
ReturnedChain == Returned /\ retChain # <<>>
ReturnedError == Returned /\ retErr # NoErr

\* buildChain(channel i) has returned
Built(i) == accPc[i] \in {"lock", "append", "wgDone", "done"}

(***************************************************************************)
(* C1: a call of BuildChainFromSources returns exactly one of a chain and  *)
(* an error; when a source has returned a non-EOF error the call returns   *)
(* an error, one that a source has raised, and a nil chain; a chain is     *)
(* returned only when every source reached io.EOF and none raised an error.*)
(***************************************************************************)
C1_ErrorOrChain ==
    Returned =>
        /\ (retChain = <<>>) # (retErr = NoErr)
        /\ (AllRaised # {} => retErr # NoErr /\ retChain = <<>>)
        /\ (retErr # NoErr => retErr \in AllRaised)
        /\ (retChain # <<>> =>
              \A i \in Streams :
                  prodPc[i] = "done" /\ tokClosed[i] /\ raised[i] = <<>>)

\* an error is returned although another stream has delivered tokens
C1_Witness ==
    /\ ReturnedError
    /\ retChain = <<>>
    /\ \E i, j \in Streams : i # j /\ raised[i] # <<>> /\ returned[j] # <<>>

(***************************************************************************)
(* C2: when a chain is returned, for every pair (p, nx) its count          *)
(* occurrences[p][nx] is the number of adjacent positions (p, nx) in       *)
(* "" ++ stream ++ "", summed over the streams, whatever the interleaving  *)
(* and the order of chainSlice.                                            *)
(***************************************************************************)
C2_ChainIsPairCounts ==
    ReturnedChain =>
        /\ OnlyTokens(retChain[1].Links)
        /\ \A p, nx \in Tokens :
              OccOf(retChain[1].Links, p, nx) = SumPairs(n, p, nx)

\* a chain of two streams that share a transition
C2_Witness ==
    /\ ReturnedChain
    /\ n = 2
    /\ \E p, nx \in Tokens : OccOf(retChain[1].Links, p, nx) >= 2
    /\ \A i \in Streams : returned[i] # <<>>

(***************************************************************************)
(* C3 as claimed: when BuildChainFromSources has returned, with a chain or *)
(* with an error, no producer and no accumulator goroutine is running.     *)
(***************************************************************************)
C3_NothingRunsAtReturn ==
    Returned => \A i \in Streams : accPc[i] = "done" /\ prodPc[i] = "done"

(***************************************************************************)
(* C3 as amended: when BuildChainFromSources has returned a chain, every   *)
(* accumulator goroutine has finished and every producer has returned.     *)
(***************************************************************************)
C3_ChainAfterAllFinished ==
    ReturnedChain => \A i \in Streams : accPc[i] = "done" /\ prodPc[i] = "done"

C3_Witness == ReturnedChain /\ n = 2 /\ bslcPc = "close"

(***************************************************************************)
(* C4: once source i has returned a non-EOF error, its producer calls      *)
(* NextToken no more, puts no further token on tokChan i, and the links of *)
(* buildChain(channel i) change no more.                                   *)
(***************************************************************************)
C4_AbortedAfterError ==
    [][\A i \in Streams :
          raised[i] # <<>> =>
              /\ ~(prodPc[i] = "next" /\ prodPc'[i] # "next")
              /\ Len(tokChan'[i]) <= Len(tokChan[i])
              /\ links'[i] = links[i]]_vars

(***************************************************************************)
(* C5: when buildChain has returned for a stream s, for every token p the  *)
(* link of p counts for every nx the positions of "" ++ s ++ "" at which   *)
(* p is immediately followed by nx, and its Total is the number of         *)
(* positions at which p is followed by something, the sum of its counts.   *)
(***************************************************************************)
C5_BuildChainCounts ==
    \A i \in Streams :
        Built(i) =>
            /\ OnlyTokens(links[i])
            /\ \A p \in Tokens :
                  /\ \A nx \in Tokens :
                        OccOf(links[i], p, nx)
                            = PairCount(Framed(returned[i]), p, nx)
                  /\ TotalOf(links[i], p)
                        = FollowedCount(Framed(returned[i]), p)
                  /\ p \in DOMAIN links[i] =>
                        links[i][p].Total
                            = SumValues(links[i][p].NextTokenOccurrences)

\* buildChain has returned for a stream of two tokens
C5_Witness == \E i \in Streams : accPc[i] = "done" /\ Len(returned[i]) = 2

(***************************************************************************)
(* C8: in every chain returned by buildChain, by mergeChains and by        *)
(* BuildChainFromSources, every link has Total equal to the sum of its     *)
(* occurrence counts, only positive counts, and the source token of the    *)
(* key it is stored under.                                                 *)
(***************************************************************************)
WellFormedLinks(ls) ==
    \A k \in DOMAIN ls :
        /\ ls[k].Token = k
        /\ ls[k].Total = SumValues(ls[k].NextTokenOccurrences)
        /\ \A nx \in DOMAIN ls[k].NextTokenOccurrences :
              ls[k].NextTokenOccurrences[nx] > 0

C8_WellFormed ==
    /\ \A i \in Streams : Built(i) => WellFormedLinks(links[i])
    /\ \A k \in DOMAIN chainSlice : WellFormedLinks(chainSlice[k].Links)
    /\ bslcPc # "wait" => WellFormedLinks(bslcVal.Links)
    /\ ReturnedChain => WellFormedLinks(retChain[1].Links)

\* a returned chain, merged from two partial chains, with a count above 1
C8_Witness ==
    /\ ReturnedChain
    /\ Len(chainSlice) = 2
    /\ \E k \in DOMAIN retChain[1].Links : retChain[1].Links[k].Total >= 2

(***************************************************************************)
(* C9: in a returned chain a token has a link, and only one, exactly when  *)
(* it is the previous token of a transition of some stream ("" before the  *)
(* first token of each); for any other token RetrieveMarkovLink and        *)
(* CalculateNextToken report keyPresent = false.                           *)
(***************************************************************************)
C9_KeySet ==
    ReturnedChain =>
        /\ DOMAIN retChain[1].Links = PrevTokens
        /\ \A t \in DOMAIN retChain[1].Links : retChain[1].Links[t].Token = t
        /\ \A t \in Tokens :
              RetrieveMarkovLink(retChain[1], t)[2] = (t \in PrevTokens)
        /\ ret.op \in {"RetrieveMarkovLink", "CalculateNextToken"} =>
              ret.keyPresent = (args.token \in PrevTokens)

\* both queries have answered "not present" on a chain built from streams
C9_Witness ==
    /\ ReturnedChain
    /\ n >= 1
    /\ ret.op = "CalculateNextToken"
    /\ ~ret.keyPresent
    /\ args.token \notin PrevTokens
    /\ PrevTokens # {""}

(***************************************************************************)
(* C10: BuildChainFromSources() with no sources returns, and returns a     *)
(* chain without links and no error; every query on that chain reports     *)
(* "not present".                                                          *)
(***************************************************************************)
C10_ZeroStreams ==
    n = 0 =>
        /\ ~Returned => ENABLED (BslcMerge \/ BslcSend)
        /\ Returned =>
              /\ retErr = NoErr
              /\ retChain # <<>>
              /\ DOMAIN retChain[1].Links = {}
              /\ \A t \in Tokens :
                    /\ RetrieveMarkovLink(retChain[1], t) = <<(<<>>), FALSE>>
                    /\ CalculateNextToken(retChain[1], t, <<>>, 0)
                           = <<"", FALSE>>
              /\ ret.op \in {"RetrieveMarkovLink", "CalculateNextToken"} =>
                    ~ret.keyPresent

\* a query has been answered on the chain of zero streams
C10_Witness ==
    n = 0 /\ ReturnedChain /\ ret.op = "CalculateNextToken" /\ ~ret.keyPresent


(***************************************************************************)
(* mergeChains called on its own, on partial chains of bounded streams and *)
(* the chain without links.                                                *)
(***************************************************************************)
\* no call of BuildChainFromSources is in progress
NoBuild ==
    /\ n = 0
    /\ returned = <<>> /\ raised = <<>> /\ prodPc = <<>> /\ prodVal = <<>>
    /\ tokChan = <<>> /\ tokClosed = <<>> /\ accPc = <<>> /\ links = <<>>
    /\ lastVal = <<>>
    /\ chainTex = 0 /\ chainSlice = <<>> /\ wg = 0
    /\ bslcPc = "wait" /\ bslcVal = MakeChain(EmptyMap) /\ chainClosed = FALSE
    /\ mainPc = "select" /\ retChain = <<>> /\ retErr = NoErr
    /\ limits = [tokens |-> 0, errs |-> 0, alphabet |-> {}]

buildVars == <<n, limits, sourceVars, prodVars, chanVars, accVars, bslcVars, mainVars>>

RECURSIVE SeqsUpTo(_, _)
SeqsUpTo(S, k) ==
    IF k = 0 THEN {<<>>}
    ELSE LET shorter == SeqsUpTo(S, k - 1)
         IN  shorter \cup {Append(q, x) : q \in shorter, x \in S}

ChainPool ==
    {MakeChain(EmptyMap)} \cup {buildChain(q) : q \in SeqsUpTo(Tokens, MaxSeqLen)}

Perms(k) == {f \in [1..k -> 1..k] : \A i, j \in 1..k : i # j => f[i] # f[j]}

Permuted(q, f) == [i \in 1..Len(q) |-> q[f[i]]]

InitMerge ==
    /\ NoBuild
    /\ NoFilter
    /\ args \in {[op |-> "mergeChains", chains |-> <<a, b, c>>] :
                    a \in ChainPool, b \in ChainPool, c \in ChainPool}
    /\ ret = NoCall

\* mergeChains(chains...) with the chains in some order
CallMergeChains ==
    /\ args.op = "mergeChains"
    /\ \E f \in Perms(Len(args.chains)) :
         ret' = [op |-> "mergeChains", perm |-> f,
                 chain |-> mergeChains(Permuted(args.chains, f))]
    /\ UNCHANGED <<buildVars, filterVars, args>>

NextMerge == CallMergeChains

SpecMerge == InitMerge /\ [][NextMerge]_vars

(***************************************************************************)
(* C6: mergeChains is commutative and associative: partial chains A, B, C  *)
(* merged in any permutation, and merge(A, B) merged with C or A merged    *)
(* with merge(B, C), give chains with the same keys, the same occurrence   *)
(* counts and the same totals.                                             *)
(***************************************************************************)
C6_MergeCommutesAssociates ==
    args.op = "mergeChains" =>
        LET a == args.chains[1]
            b == args.chains[2]
            c == args.chains[3]
            all == mergeChains(<<a, b, c>>)
        IN  /\ \A f \in Perms(3) : mergeChains(Permuted(args.chains, f)) = all
            /\ mergeChains(<<a, b>>) = mergeChains(<<b, a>>)
            /\ mergeChains(<<mergeChains(<<a, b>>), c>>) = all
            /\ mergeChains(<<a, mergeChains(<<b, c>>)>>) = all
            /\ ret.op = "mergeChains" => ret.chain = all

\* three different partial chains with a common key, merged out of order
C6_Witness ==
    /\ args.op = "mergeChains"
    /\ ret.op = "mergeChains"
    /\ ret.perm = <<3, 1, 2>>
    /\ Cardinality(Range(args.chains)) = 3
    /\ \E k \in Tokens : \A i \in 1..3 : k \in DOMAIN args.chains[i].Links
    /\ \E k \in DOMAIN ret.chain.Links : ret.chain.Links[k].Total = 3

(***************************************************************************)
(* GetNextToken called on its own, on links with bounded counts whose      *)
(* Total is the sum of the counts.                                         *)
(***************************************************************************)
LinkPool ==
    {[Token |-> t, NextTokenOccurrences |-> occ, Total |-> SumValues(occ)] :
        t \in Tokens,
        occ \in UNION {[D -> 1..MaxCount] : D \in (SUBSET Tokens) \ {{}}}}

InitSample ==
    /\ NoBuild
    /\ NoFilter
    /\ args \in {[op |-> "GetNextToken", link |-> l, order |-> o] :
                    l \in LinkPool,
                    o \in UNION {Orders(x.NextTokenOccurrences) : x \in LinkPool}}
    /\ Range(args.order) = DOMAIN args.link.NextTokenOccurrences
    /\ ret = NoCall

\* l.GetNextToken(rand), goalSum the value rand.Intn(l.Total) returns
CallGetNextToken ==
    /\ args.op = "GetNextToken"
    /\ \E goalSum \in 0..(args.link.Total - 1) :
         ret' = [op |-> "GetNextToken", goalSum |-> goalSum,
                 token |-> GetNextToken(args.link, args.order, goalSum)]
    /\ UNCHANGED <<buildVars, filterVars, args>>

\* l.GetProbabilityOfToken(nextToken)
CallGetProbabilityOfToken ==
    /\ "link" \in DOMAIN args
    /\ \E nextToken \in Tokens :
         LET p == GetProbabilityOfToken(args.link, nextToken)
         IN  ret' = [op |-> "GetProbabilityOfToken", nextToken |-> nextToken,
                     probability |-> p[1], present |-> p[2]]
    /\ UNCHANGED <<buildVars, filterVars, args>>

\* l.RetrieveNextTokenPossibilities()
CallRetrieveNextTokenPossibilities ==
    /\ "link" \in DOMAIN args
    /\ ret' = [op |-> "RetrieveNextTokenPossibilities",
               tokens |-> RetrieveNextTokenPossibilities(args.link, args.order)]
    /\ UNCHANGED <<buildVars, filterVars, args>>

NextSample ==
    \/ CallGetNextToken
    \/ CallGetProbabilityOfToken
    \/ CallRetrieveNextTokenPossibilities

SpecSample == InitSample /\ [][NextSample]_vars

(***************************************************************************)
(* C7: for a link whose Total is the sum of its counts and any order of    *)
(* the range over its occurrences, the number of values goalSum in         *)
(* [0, Total) for which GetNextToken returns x is occurrences[x].          *)
(***************************************************************************)
Draws(l, order, x) ==
    Cardinality({g \in 0..(l.Total - 1) : GetNextToken(l, order, g) = x})

C7_SamplingCounts ==
    ret.op = "GetNextToken" =>
        \A x \in DOMAIN args.link.NextTokenOccurrences :
            Draws(args.link, args.order, x) = args.link.NextTokenOccurrences[x]

(***************************************************************************)
(* filteredSource.NextToken called on its own: a stack of one or more      *)
(* filters (ApplyFiltersToSource) over a source that returns a bounded     *)
(* sequence of tokens and then EOF or an error, for ever.                  *)
(***************************************************************************)
LayerPool ==
    UNION {[1..k -> {NewFilteredSource(f) : f \in FilterPool}] :
               k \in 1..MaxFilters}

InitFilter ==
    /\ NoBuild
    /\ fsrc \in {[up |-> [toks |-> q, end |-> e], pos |-> 0, layers |-> L] :
                    q \in SeqsUpTo(FTokens, MaxUp),
                    e \in {EOF, SourceError(1)},
                    L \in LayerPool}
    /\ delivered = <<>>
    /\ args = [op |-> "NextToken"]
    /\ ret = NoCall

\* the outermost filteredSource's NextToken()
CallFilteredNextToken ==
    /\ args.op = "NextToken"
    /\ LET r == layerNextToken(fsrc, Len(fsrc.layers))
       IN  /\ fsrc' = r.fs
           /\ delivered' = IF r.err = NoErr THEN Append(delivered, r.token)
                                            ELSE delivered
           /\ ret' = [op |-> "NextToken", token |-> r.token, err |-> r.err]
    /\ UNCHANGED <<buildVars, args>>

NextFilter == CallFilteredNextToken

SpecFilter == InitFilter /\ [][NextFilter]_vars

\* FilterToken(c1) ++ ... ++ FilterToken(cn) for the candidates of q
RECURSIVE Expand(_, _)
Expand(filter, q) ==
    IF q = <<>> THEN <<>>
    ELSE FilterToken(filter, Head(q)).tokens \o Expand(filter, Tail(q))

\* the same through layers 1..k, innermost first
RECURSIVE ExpandLayers(_, _, _)
ExpandLayers(layers, k, q) ==
    IF k = 0 THEN q
    ELSE Expand(layers[k].filter, ExpandLayers(layers, k - 1, q))

\* what layer k owes its caller for the upstream tokens read so far: the rest
\* of its queue, then the expansion of what the layer below owes
RECURSIVE Owed(_, _)
Owed(fs, k) ==
    IF k = 0 THEN <<>>
    ELSE LET s == fs.layers[k]
         IN  SubSeq(s.queue, s.index + 1, Len(s.queue))
                 \o Expand(s.filter, Owed(fs, k - 1))

NeverFails(fs) ==
    \A k \in 1..Len(fs.layers) : \A c \in FTokens :
        FilterToken(fs.layers[k].filter, c).err = NoErr

IsPrefix(p, q) == Len(p) <= Len(q) /\ SubSeq(q, 1, Len(p)) = p

(***************************************************************************)
(* C11: over an upstream c1..cn followed by EOF and filters that never     *)
(* fail, the successive calls of NextToken return exactly                  *)
(* FilterToken(c1) ++ ... ++ FilterToken(cn) and then EOF: a candidate     *)
(* filtered to no token is dropped, and an expansion to several tokens is  *)
(* returned whole and in order before the next upstream token is read.     *)
(***************************************************************************)
C11_FilteredStream ==
    (args.op = "NextToken" /\ NeverFails(fsrc) /\ fsrc.up.end = EOF) =>
        LET top == Len(fsrc.layers)
            all == ExpandLayers(fsrc.layers, top, fsrc.up.toks)
        IN  /\ IsPrefix(delivered, all)
            /\ delivered \o Owed(fsrc, top)
                   = ExpandLayers(fsrc.layers, top,
                                  SubSeq(fsrc.up.toks, 1, fsrc.pos))
            /\ ret.op = "NextToken" =>
                   /\ ret.err \in {NoErr, EOF}
                   /\ ret.err = NoErr =>
                          ret.token = delivered[Len(delivered)]
                   /\ ret.err = EOF => ret.token = "" /\ delivered = all

\* two filters, the inner one dropping a candidate and expanding another, and
\* the whole stream read to EOF
C11_Witness ==
    /\ args.op = "NextToken" /\ NeverFails(fsrc) /\ fsrc.up.end = EOF
    /\ Len(fsrc.layers) = 2
    /\ ret.op = "NextToken" /\ ret.err = EOF
    /\ \E i, j \in 1..Len(fsrc.up.toks) :
           /\ FilterToken(fsrc.layers[1].filter, fsrc.up.toks[i]).tokens = <<>>
           /\ Len(FilterToken(fsrc.layers[1].filter,
                              fsrc.up.toks[j]).tokens) > 1
    /\ Len(delivered) > Len(fsrc.up.toks)

(***************************************************************************)
(* BuildChainFromSources over one source wrapped in one filter, as         *)
(* MakeFilteredTokenSources hands it over.                                 *)
(***************************************************************************)
InitFiltered ==
    /\ n = 1
    /\ returned = [i \in Streams |-> <<>>]
    /\ raised = [i \in Streams |-> <<>>]
    /\ prodPc = [i \in Streams |-> "next"]
    /\ prodVal = [i \in Streams |-> ""]
    /\ tokChan = [i \in Streams |-> <<>>]
    /\ tokClosed = [i \in Streams |-> FALSE]
    /\ accPc = [i \in Streams |-> "range"]
    /\ links = [i \in Streams |-> EmptyMap]
    /\ lastVal = [i \in Streams |-> ""]
    /\ chainTex = 0
    /\ chainSlice = <<>>
    /\ wg = n
    /\ bslcPc = "wait"
    /\ bslcVal = MakeChain(EmptyMap)
    /\ chainClosed = FALSE
    /\ mainPc = "select"
    /\ retChain = <<>>
    /\ retErr = NoErr
    /\ args = NoCall
    /\ ret = NoCall
    /\ limits = [tokens |-> 0, errs |-> 0, alphabet |-> {}]
    /\ fsrc \in {[up |-> [toks |-> q, end |-> e], pos |-> 0,
                  layers |-> <<NewFilteredSource(f)>>] :
                    q \in SeqsUpTo(FTokens, MaxUp),
                    e \in {EOF, SourceError(1)},
                    f \in FilterPool}
    /\ delivered = <<>>

SpecFiltered == InitFiltered /\ [][Next]_vars

\* the next call of the one-filter source reads a candidate its filter fails on
NextCandidateFails(fs) ==
    LET s == fs.layers[1]
    IN  /\ s.index >= Len(s.queue)
        /\ fs.pos < Len(fs.up.toks)
        /\ FilterToken(s.filter, fs.up.toks[fs.pos + 1]).err = FilterError

\* the next call finds the wrapped source at its end, which is an error
NextReadFails(fs) ==
    LET s == fs.layers[1]
    IN  /\ s.index >= Len(s.queue)
        /\ fs.pos = Len(fs.up.toks)
        /\ fs.up.end # EOF

(***************************************************************************)
(* C12: when the filter fails on a candidate, NextToken returns the        *)
(* filter's error and no token, the same way it returns an error of the    *)
(* wrapped source; and a build over the filtered stream whose NextToken    *)
(* has returned an error returns that error and no chain.                  *)
(***************************************************************************)
C12_FilterErrorFailsBuild ==
    fsrc.layers # <<>> =>
        LET r == layerNextToken(fsrc, Len(fsrc.layers))
        IN  /\ NextCandidateFails(fsrc) =>
                   r.token = "" /\ r.err = FilterError
            /\ NextReadFails(fsrc) =>
                   r.token = "" /\ r.err = fsrc.up.end
            /\ r.err # NoErr => r.token = ""
            /\ \A i \in Streams :
                   /\ Range(raised[i]) \subseteq {FilterError, fsrc.up.end}
                   /\ (raised[i] # <<>> /\ Returned) =>
                          retChain = <<>> /\ retErr = raised[i][1]

\* the filter let a token through, failed on a later one, and the build
\* returned the filter's error
C12_Witness ==
    /\ fsrc.layers # <<>>
    /\ delivered # <<>>
    /\ raised[1] # <<>> /\ raised[1][1] = FilterError
    /\ Returned /\ retErr = FilterError /\ retChain = <<>>

\* the chain of the single stream [a, b, a, b]
ExampleChain == buildChain(<<"a", "b", "a", "b">>)

\* p is the quotient num / den
IsQuotient(p, num, den) == p.den > 0 /\ den > 0 /\ p.num * den = num * p.den

(***************************************************************************)
(* C13: GetProbabilityOfToken of a link and a token returns                *)
(* (occurrences[token] / Total, true) when the token is a recorded         *)
(* occurrence and (0.0, false) otherwise; over the recorded next tokens of *)
(* a well-formed link the numerators sum to Total.  The chain of the       *)
(* stream [a, b, a, b] has the links "" -> {a:1}, a -> {b:2} and           *)
(* b -> {a:1, "":1}.                                                       *)
(***************************************************************************)
C13_ProbabilityLookup ==
    "link" \in DOMAIN args =>
        LET l == args.link
            occ == l.NextTokenOccurrences
            prob(t) == GetProbabilityOfToken(l, t)
        IN  /\ \A t \in Tokens :
                   IF t \in DOMAIN occ
                   THEN prob(t)[2] /\ IsQuotient(prob(t)[1], occ[t], l.Total)
                   ELSE prob(t) = <<Zero, FALSE>>
            /\ \A t \in DOMAIN occ : prob(t)[1].den = l.Total
            /\ SumValues([t \in DOMAIN occ |-> prob(t)[1].num]) = l.Total
            /\ ret.op = "GetProbabilityOfToken" =>
                   /\ ret.present = (ret.nextToken \in DOMAIN occ)
                   /\ ret.present =>
                          IsQuotient(ret.probability, occ[ret.nextToken],
                                     l.Total)
                   /\ ~ret.present => ret.probability = Zero
            /\ DOMAIN ExampleChain.Links = {"", "a", "b"}
            /\ ExampleChain.Links[""].NextTokenOccurrences = [t \in {"a"} |-> 1]
            /\ ExampleChain.Links["a"].NextTokenOccurrences = [t \in {"b"} |-> 2]
            /\ ExampleChain.Links["b"].NextTokenOccurrences
                   = [t \in {"a", ""} |-> 1]
            /\ l = ExampleChain.Links["b"] =>
                   /\ prob("a") = <<Quotient(1, 2), TRUE>>
                   /\ prob("") = <<Quotient(1, 2), TRUE>>
                   /\ prob("b") = <<Zero, FALSE>>

\* the link of b in the chain of [a, b, a, b], asked for a token it has and
\* for one it has not
C13_Witness ==
    /\ "link" \in DOMAIN args
    /\ args.link = ExampleChain.Links["b"]
    /\ ret.op = "GetProbabilityOfToken"
    /\ \/ ret.nextToken = "" /\ ret.present /\ ret.probability = Quotient(1, 2)
       \/ ret.nextToken = "b" /\ ~ret.present

(***************************************************************************)
(* The queries of a link whose Total is miscomputed: larger than the sum   *)
(* of its counts.  The fields of a link are exported and RetrieveMarkovLink *)
(* hands out the pointer, so a caller can bring a link into this state.    *)
(***************************************************************************)
InitMiscomputed ==
    /\ NoBuild
    /\ NoFilter
    /\ args \in {[op |-> "GetNextToken",
                  link |-> [l EXCEPT !.Total = @ + x], order |-> o] :
                    l \in LinkPool, x \in 1..MaxExcess,
                    o \in UNION {Orders(y.NextTokenOccurrences) :
                                     y \in LinkPool}}
    /\ Range(args.order) = DOMAIN args.link.NextTokenOccurrences
    /\ ret = NoCall

SpecMiscomputed == InitMiscomputed /\ [][NextSample]_vars

\* no running sum of the walk reaches goalSum: the loop ends without a return
WalkedWholeTable(l, goalSum) == SumValues(l.NextTokenOccurrences) < goalSum

(***************************************************************************)
(* C14: when GetNextToken has walked the whole occurrence table of a link  *)
(* with a miscomputed Total without its running sum reaching the goal, the *)
(* outcome is no ordinary token: it differs from every token a stream can  *)
(* hold, the end-of-stream sentinel "" included.                           *)
(***************************************************************************)
C14_FallThroughIsFatal ==
    (ret.op = "GetNextToken" /\ WalkedWholeTable(args.link, ret.goalSum)) =>
        ret.token \notin Tokens

\* a chain without links
EmptyChain == MakeChain(EmptyMap)

(***************************************************************************)
(* C15: merging a partial chain T with a chain without links, in either    *)
(* order, gives a chain equal to T: the same keys, the same occurrence     *)
(* counts and the same totals; merging no chain at all gives a chain       *)
(* without links.                                                          *)
(***************************************************************************)
C15_MergeIdentity ==
    args.op = "mergeChains" =>
        /\ \A i \in 1..Len(args.chains) :
               LET T == args.chains[i]
               IN  /\ mergeChains(<<T, EmptyChain>>) = T
                   /\ mergeChains(<<EmptyChain, T>>) = T
                   /\ mergeChains(<<EmptyChain, T, EmptyChain>>) = T
        /\ mergeChains(<<>>) = EmptyChain
        /\ (/\ ret.op = "mergeChains"
            /\ Cardinality({i \in 1..3 : args.chains[i] # EmptyChain}) = 1)
               => \E i \in 1..3 : /\ args.chains[i] # EmptyChain
                                  /\ ret.chain = args.chains[i]

\* a chain with several links merged between two chains without links
C15_Witness ==
    /\ args.op = "mergeChains"
    /\ ret.op = "mergeChains"
    /\ args.chains[1] = EmptyChain /\ args.chains[3] = EmptyChain
    /\ Cardinality(DOMAIN args.chains[2].Links) = 3
    /\ ret.perm = <<2, 3, 1>>
    /\ ret.chain = args.chains[2]

\* no goroutine of the call has a step left that could write a chain
NoWriterLeft ==
    /\ \A i \in Streams : prodPc[i] = "done" /\ accPc[i] = "done"
    /\ bslcPc \in {"close", "done"}

(***************************************************************************)
(* C16: once BuildChainFromSources has returned a chain, no step changes   *)
(* it: not a query (CalculateNextToken, RetrieveMarkovLink, GetNextToken,  *)
(* RetrieveNextTokenPossibilities, GetProbabilityOfToken), however many    *)
(* are made and in whatever order, and not a goroutine left over from the  *)
(* construction, none of which has a writing step left.  The chain the     *)
(* caller holds is the object BuildSingleLinkChain sent, so both stay as   *)
(* they are.                                                               *)
(***************************************************************************)
C16_ChainImmutable ==
    [][ReturnedChain =>
           /\ retChain[1] = bslcVal
           /\ NoWriterLeft
           /\ retChain' = retChain
           /\ bslcVal' = bslcVal
           /\ links' = links /\ chainSlice' = chainSlice]_vars

\* a returned chain with two links, queried for a probability after the
\* goroutine that built it has ended
C16_Witness ==
    /\ ReturnedChain
    /\ bslcPc = "done"
    /\ Cardinality(DOMAIN retChain[1].Links) >= 2
    /\ ret.op = "GetProbabilityOfToken"
    /\ ret.present
    /\ retChain[1] = bslcVal

\* wg.Wait() has returned: the merge has started or is over
MergeStarted == bslcPc # "wait"

(***************************************************************************)
(* C17: BuildSingleLinkChain starts the merge only when every accumulator  *)
(* has finished buildChain, appended its partial chain to the slice while  *)
(* holding the mutex and called wg.Done(); the slice then holds exactly    *)
(* one partial chain per token channel.  A partial chain is written only   *)
(* by the accumulator that owns it, the slice only by the accumulator      *)
(* holding the mutex, and neither is written once the merge has started.   *)
(***************************************************************************)
C17_BarrierBeforeMerge ==
    [][
        /\ MergeStarted =>
              /\ \A i \in Streams : accPc[i] = "done" /\ Built(i)
              /\ wg = 0 /\ chainTex = 0
              /\ Len(chainSlice) = n
              /\ \E f \in Perms(n) :
                     \A k \in 1..n : chainSlice[k] = MakeChain(links[f[k]])
              /\ links' = links
              /\ chainSlice' = chainSlice
        /\ \A i \in Streams :
               /\ links'[i] # links[i] => AccReceive(i) \/ AccBuilt(i)
               /\ chainTex = i <=> accPc[i] = "append"
        /\ chainSlice' # chainSlice =>
               \E i \in Streams : chainTex = i /\ AccAppend(i)
        /\ Cardinality({i \in Streams : accPc[i] = "append"}) <= 1
        /\ wg = Cardinality({i \in Streams : accPc[i] # "done"})
        /\ Len(chainSlice)
               = Cardinality({i \in Streams : accPc[i] \in {"wgDone", "done"}})
      ]_vars

\* two accumulators appended different partial chains, the second stream's
\* first, and the merge has run over both
C17_Witness ==
    /\ n = 2
    /\ MergeStarted
    /\ links[1] # links[2]
    /\ chainSlice = <<MakeChain(links[2]), MakeChain(links[1])>>
    /\ \A i \in Streams : accPc[i] = "done"
    /\ bslcVal = mergeChains(chainSlice)

\* the running sum of the loop after it has visited the first i keys
RECURSIVE RunningSum(_, _, _)
RunningSum(l, order, i) ==
    IF i = 0 THEN 0
    ELSE RunningSum(l, order, i - 1) + l.NextTokenOccurrences[order[i]]

\* the iterations at which the test sum >= goalSum of the loop succeeds
Hits(l, order, goalSum) ==
    {i \in 1..Len(order) : RunningSum(l, order, i) >= goalSum}

Min(S) == CHOOSE x \in S : \A y \in S : x <= y

(***************************************************************************)
(* C18: for a link with Total > 0 equal to the sum of its occurrence       *)
(* counts, every value g in [0, Total) and every order of the range over   *)
(* the occurrence map, the loop of GetNextToken reaches an iteration whose *)
(* test succeeds and GetNextToken returns the key of the first such        *)
(* iteration, a key of NextTokenOccurrences and so an element of           *)
(* RetrieveNextTokenPossibilities: the return "" after the loop is not     *)
(* reached.                                                                *)
(***************************************************************************)
C18_SamplerReturnsRecorded ==
    (/\ "link" \in DOMAIN args
     /\ args.link.Total > 0
     /\ args.link.Total = SumValues(args.link.NextTokenOccurrences)) =>
        LET l == args.link
            order == args.order
            keys == DOMAIN l.NextTokenOccurrences
        IN  /\ Range(RetrieveNextTokenPossibilities(l, order)) = keys
            /\ \A g \in 0..(l.Total - 1) :
                   /\ Hits(l, order, g) # {}
                   /\ GetNextToken(l, order, g) = order[Min(Hits(l, order, g))]
                   /\ GetNextToken(l, order, g) \in keys
            /\ ret.op = "GetNextToken" =>
                   /\ ret.token \in keys
                   /\ ret.token \in Range(RetrieveNextTokenPossibilities(l, order))
            /\ ret.op = "RetrieveNextTokenPossibilities" =>
                   Range(ret.tokens) = keys /\ Len(ret.tokens) = Cardinality(keys)

\* the largest drawn value on a link of three keys, answered by the key the
\* range visits last, here the recorded key ""
C18_Witness ==
    /\ "link" \in DOMAIN args
    /\ args.link.Total = SumValues(args.link.NextTokenOccurrences)
    /\ Len(args.order) = 3
    /\ ret.op = "GetNextToken"
    /\ ret.goalSum = args.link.Total - 1
    /\ ret.token = args.order[3]
    /\ ret.token = ""

(***************************************************************************)
(* The call under fair scheduling.  The Go scheduler runs every goroutine  *)
(* that can take a step, so each goroutine of the call is weakly fair; the *)
(* caller's later queries are not.  Besides the calls of Init, the call is *)
(* made with one source whose stream is longer than the buffer of its      *)
(* token channel.                                                          *)
(***************************************************************************)
InitLong ==
    /\ n = 1
    /\ returned = [i \in Streams |-> <<>>]
    /\ raised = [i \in Streams |-> <<>>]
    /\ prodPc = [i \in Streams |-> "next"]
    /\ prodVal = [i \in Streams |-> ""]
    /\ tokChan = [i \in Streams |-> <<>>]
    /\ tokClosed = [i \in Streams |-> FALSE]
    /\ accPc = [i \in Streams |-> "range"]
    /\ links = [i \in Streams |-> EmptyMap]
    /\ lastVal = [i \in Streams |-> ""]
    /\ chainTex = 0
    /\ chainSlice = <<>>
    /\ wg = n
    /\ bslcPc = "wait"
    /\ bslcVal = MakeChain(EmptyMap)
    /\ chainClosed = FALSE
    /\ mainPc = "select"
    /\ retChain = <<>>
    /\ retErr = NoErr
    /\ args = NoCall
    /\ ret = NoCall
    /\ limits = [tokens |-> MaxLong, errs |-> 1, alphabet |-> {"a"}]
    /\ NoFilter

\* the steps of the producer goroutine of source i
ProducerStep(i) ==
    i \in Streams /\ (ProducerNext(i) \/ ProducerSendToken(i)
                          \/ ProducerSendError(i))

\* the steps of the accumulator goroutine of token channel i
AccStep(i) ==
    i \in Streams /\ (AccReceive(i) \/ AccBuilt(i) \/ AccLock(i)
                          \/ AccAppend(i) \/ AccDone(i))

\* the steps of the BuildSingleLinkChain goroutine
BslcStep == BslcMerge \/ BslcSend \/ BslcClose

\* a step of some goroutine of the call
TaskNext ==
    \/ \E i \in Streams : ProducerStep(i)
    \/ \E i \in Streams : AccStep(i)
    \/ BslcStep

Fairness ==
    /\ \A i \in 1..MaxStreams : WF_vars(ProducerStep(i))
    /\ \A i \in 1..MaxStreams : WF_vars(AccStep(i))
    /\ WF_vars(BslcStep)

SpecFair == (Init \/ InitLong) /\ [][Next]_vars /\ Fairness

(***************************************************************************)
(* C19: under fair scheduling of the goroutines, with sources that return  *)
(* EOF after finitely many tokens and errors (streams longer than the 20   *)
(* slots of a token channel included), BuildChainFromSources eventually    *)
(* returns, a chain or an error; it does not come to a stop before.        *)
(***************************************************************************)
C19_BuildReturns == <>Returned

\* a stream longer than the buffer went through a full token channel and
\* the chain built from all of it was returned
C19_Witness ==
    /\ n = 1
    /\ Len(returned[1]) > TokChanCap
    /\ ReturnedChain
    /\ retChain[1].Links["a"].Total = Len(returned[1])

\* every goroutine the call started has ended
AllTasksDone ==
    /\ \A i \in Streams : prodPc[i] = "done" /\ accPc[i] = "done"
    /\ bslcPc = "done"

(***************************************************************************)
(* C20: after BuildChainFromSources has returned, every goroutine it       *)
(* started ends: as long as one has not ended, some goroutine of the call  *)
(* can still take a step, so none is left for ever at a send on errorChan, *)
(* chainChan or a token channel or at a receive from a token channel.      *)
(***************************************************************************)
C20_NoTaskLeftBlocked == (Returned /\ ~AllTasksDone) => ENABLED TaskNext

=============================================================================
